---- MODULE Spec2Model ----
(***************************************************************************)
(* Model of liquid_handling_protocols/opentrons_compass_pattern.py: the    *)
(* run() function of the compass-pattern protocol.  One state is the       *)
(* protocol's configuration (TRANSFERS, MIX_PARAMS, TIPRACK_TIPS), the      *)
(* local variables of run(), the labware/pipette state the protocol acts   *)
(* on (plate offset frames, the tip rack's tip tracker, the attached tip,  *)
(* the liquid held) and the trace of hardware commands that have returned. *)
(* Lengths are in tenths of a millimetre (7.5 mm = 75), the mix rate in    *)
(* tenths (5.5 = 55), volumes in microlitres.                              *)
(***************************************************************************)
EXTENDS Integers, Sequences, FiniteSets

VARIABLES
    TRANSFERS,        \* the transfer list (line 38)
    MIX_PARAMS,       \* the mix parameters (line 50)
    TIPRACK_TIPS,     \* the tip consumption list (line 63)
    tips_to_consume,  \* iter(TIPRACK_TIPS): number of entries already yielded
    transfer,         \* loop variable: index in TRANSFERS of the current transfer
    starting_tip,     \* the value of next(tips_to_consume) at line 167
    next_tip,         \* local of run(): result of tiprack.next_tip(...)
    source_well,      \* local of run()
    dest_well,        \* local of run()
    pc,               \* the statement run() is at
    status,           \* "running", "completed", or the exception that ended run()
    offset,           \* offset frame of each labware (set_offset)
    has_tip,          \* the tip rack's tip tracker
    attached,         \* the tip on the pipette, "-" when none
    current_volume,   \* liquid held by the pipette
    cmds              \* hardware commands that have returned, in order

config == <<TRANSFERS, MIX_PARAMS, TIPRACK_TIPS>>
locals == <<tips_to_consume, transfer, starting_tip, next_tip, source_well, dest_well>>
hardware == <<offset, has_tip, attached, current_volume>>
vars == <<config, locals, pc, status, hardware, cmds>>

----------------------------------------------------------------------------
(* Bounds of the model *)

MaxTransfers == 2
MaxTips == 2

(* Program constants *)

MIX_VOLUME == 1000
NUM_MIXES_AT_EACH_POINT == 3
MM_FROM_CENTER == 75
MM_FROM_BOTTOM == 25
MIX_RATE == 55
VOLUME_UL == 1000
APPROACH_MM == 20
TRAVEL_MM == 400

Zero == <<0, 0, 0>>

(* A second transfer volume, different from the mix volume *)
OtherVolume == VOLUME_UL \div 2

(* Wells of the two 12-well plates (both plates have the same labware    *)
(* type, lines 36 and 57) and, in column order, of the tip rack.          *)
PLATE_WELLS == {"A1", "B1"}
RACK_WELLS == <<"A1", "B1", "C1">>
Plates == {"source", "destination", "tiprack"}

(* Labels a configuration may name: the wells of the plate and one label  *)
(* that is in no plate.                                                   *)
BadLabel == "Z9"
TipLabels == {"A1", "C1"}

(* The transfers a configuration is drawn from: the two of the program    *)
(* (A1->A1, B1->B1 at 1000 ul), two whose destination differs from their  *)
(* source, one with an unresolvable source and one with an unresolvable   *)
(* destination.                                                           *)
TransferChoices ==
    { [source_well |-> "A1", dest_well |-> "A1", volume_ul |-> VOLUME_UL],
      [source_well |-> "B1", dest_well |-> "B1", volume_ul |-> VOLUME_UL],
      [source_well |-> "A1", dest_well |-> "B1", volume_ul |-> OtherVolume],
      [source_well |-> "B1", dest_well |-> "A1", volume_ul |-> OtherVolume],
      [source_well |-> BadLabel, dest_well |-> "A1", volume_ul |-> VOLUME_UL],
      [source_well |-> "A1", dest_well |-> BadLabel, volume_ul |-> OtherVolume] }

MixChoices ==
    { [volume |-> MIX_VOLUME,
       num_mixes_at_each_point |-> NUM_MIXES_AT_EACH_POINT,
       mm_from_center |-> r,
       mm_from_bottom |-> MM_FROM_BOTTOM,
       mix_rate |-> MIX_RATE] : r \in {0, MM_FROM_CENTER} }

SeqsUpTo(S, n) == UNION { [1..k -> S] : k \in 0..n }

Min(S) == CHOOSE x \in S : \A y \in S : x <= y

----------------------------------------------------------------------------
(* Control flow of run(): the statements of the loop body, in order *)

Body ==
    << "next_tip", "pick_up_tip", "move_to_source",
       "mix_center", "set_north", "mix_north", "set_south", "mix_south",
       "set_east", "mix_east", "set_west", "mix_west", "reset_offset",
       "aspirate", "move_above_source", "move_above_dest", "dispense",
       "retreat", "drop_tip" >>

BodyIndex(p) == CHOOSE k \in 1..Len(Body) : Body[k] = p

(* Mutants of NextPc *)
NextPc_dispense_first(p) ==
    IF p = "reset_offset" THEN "dispense"
    ELSE IF p = "dispense" THEN "aspirate"
    ELSE IF p = "aspirate" THEN "move_above_source"
    ELSE IF p = "move_above_dest" THEN "retreat"
    ELSE IF p = "drop_tip" THEN "for" ELSE Body[BodyIndex(p) + 1]

NextPc_home_in_loop(p) ==
    IF p = "drop_tip" THEN "home" ELSE Body[BodyIndex(p) + 1]

NextPc_move_before_pick_up(p) ==
    IF p = "next_tip" THEN "move_to_source"
    ELSE IF p = "move_to_source" THEN "pick_up_tip"
    ELSE IF p = "pick_up_tip" THEN "mix_center"
    ELSE IF p = "drop_tip" THEN "for" ELSE Body[BodyIndex(p) + 1]

NextPc_no_drop(p) ==
    IF p = "retreat" THEN "for"
    ELSE IF p = "drop_tip" THEN "for" ELSE Body[BodyIndex(p) + 1]

NextPc_repeat_transfer(p) ==
    IF p = "drop_tip" THEN "next_tip" ELSE Body[BodyIndex(p) + 1]

(* The statement that follows statement p of the loop body *)
NextPc(p) ==
    IF p = "drop_tip" THEN "for" ELSE Body[BodyIndex(p) + 1]

(* Statements that issue a hardware command *)
HardwarePcs == { Body[k] : k \in 2..Len(Body) } \cup {"home"}

----------------------------------------------------------------------------
(* Labware *)

(* plate[well].top(mm) / .bottom(mm): the well of the plate, seen through *)
(* the plate's offset frame at the time of the call.                      *)
Top(plate, well, mm) ==
    [plate |-> plate, well |-> well, pos |-> "top", mm |-> mm, off |-> offset[plate]]

Bottom(plate, well, mm) ==
    [plate |-> plate, well |-> well, pos |-> "bottom", mm |-> mm, off |-> offset[plate]]

NoLocation ==
    [plate |-> "-", well |-> "-", pos |-> "-", mm |-> 0, off |-> Zero]

(* plate[well] raises KeyError for a label the plate does not have *)
HasWell(well) == well \in PLATE_WELLS

RackIndex(w) == CHOOSE k \in 1..Len(RACK_WELLS) : RACK_WELLS[k] = w

(* Mutant of TrackerNextTip: the starting tip, used or not *)
TrackerNextTip_ignores_used(w) == w

(* tiprack.next_tip(starting_tip=w): the first well at or after w, in     *)
(* rack order, that still has a tip; None when there is none.             *)
TrackerNextTip(w) ==
    LET c == { k \in RackIndex(w)..Len(RACK_WELLS) : has_tip[RACK_WELLS[k]] }
    IN  IF c = {} THEN "None" ELSE RACK_WELLS[Min(c)]

(* pick_up_tip(None) takes the next available tip of the pipette's racks *)
PickUpTarget(tip) ==
    IF tip = "None" THEN TrackerNextTip(RACK_WELLS[1]) ELSE tip

(* A command of the trace *)
Cmd(op, loc, vol, reps, rate, arg, entry) ==
    [op |-> op, t |-> transfer, loc |-> loc, vol |-> vol, reps |-> reps,
     rate |-> rate, arg |-> arg, entry |-> entry,
     start |-> IF op = "pick_up_tip" THEN starting_tip ELSE "-",
     frame |-> offset["source"], tip |-> attached, held |-> current_volume]

Issue(c) == cmds' = Append(cmds, c)

Raise(err) ==
    /\ status' = err
    /\ UNCHANGED <<config, locals, pc, hardware, cmds>>

Goto(p) == pc' = p /\ UNCHANGED status

(* Mutant of At: the run goes on after an exception (swallowed) *)
At_ignores_status(p) == pc = p

(* Statement p is the next to execute: run() has not ended *)
At(p) == status = "running" /\ pc = p

----------------------------------------------------------------------------
Init ==
    /\ TRANSFERS \in SeqsUpTo(TransferChoices, MaxTransfers)
    /\ MIX_PARAMS \in MixChoices
    /\ TIPRACK_TIPS \in SeqsUpTo(TipLabels, MaxTips)
    /\ tips_to_consume = 0
    /\ transfer = 0
    /\ starting_tip = "-"
    /\ next_tip = "-"
    /\ source_well = "-"
    /\ dest_well = "-"
    /\ pc = "for"
    /\ status = "running"
    /\ offset = [p \in Plates |-> Zero]
    /\ has_tip = [w \in { RACK_WELLS[k] : k \in 1..Len(RACK_WELLS) } |-> TRUE]
    /\ attached = "-"
    /\ current_volume = 0
    /\ cmds = <<>>


----------------------------------------------------------------------------
(* The tip iterator *)

(* Mutants of IterNext *)
IterNext_stuck(it) ==
    IF Len(TIPRACK_TIPS) = 0
    THEN [stop |-> TRUE, value |-> "-", it |-> it]
    ELSE [stop |-> FALSE, value |-> TIPRACK_TIPS[1], it |-> it]

IterNext_cycle(it) ==
    IF Len(TIPRACK_TIPS) = 0
    THEN [stop |-> TRUE, value |-> "-", it |-> it]
    ELSE [stop |-> FALSE, value |-> TIPRACK_TIPS[(it % Len(TIPRACK_TIPS)) + 1],
          it |-> it + 1]

(* next(tips_to_consume): the next entry of the list, or StopIteration *)
IterNext(it) ==
    IF it < Len(TIPRACK_TIPS)
    THEN [stop |-> FALSE, value |-> TIPRACK_TIPS[it + 1], it |-> it + 1]
    ELSE [stop |-> TRUE, value |-> "-", it |-> it]

----------------------------------------------------------------------------
(* The statements of run() *)

(* for transfer in TRANSFERS: *)
ForTransfer ==
    /\ At("for")
    /\ IF transfer < Len(TRANSFERS)
       THEN /\ transfer' = transfer + 1
            /\ Goto("next_tip")
       ELSE /\ UNCHANGED transfer
            /\ Goto("home")
    /\ UNCHANGED <<config, tips_to_consume, starting_tip, next_tip, source_well,
                   dest_well, hardware, cmds>>

(* next_tip = tiprack.next_tip(starting_tip=tiprack[next(tips_to_consume)]) *)
NextTip ==
    /\ At("next_tip")
    /\ LET n == IterNext(tips_to_consume)
       IN  IF n.stop
           THEN Raise("StopIteration")
           ELSE /\ tips_to_consume' = n.it
                /\ starting_tip' = n.value
                /\ next_tip' = TrackerNextTip(n.value)
                /\ Goto(NextPc("next_tip"))
                /\ UNCHANGED <<config, transfer, source_well, dest_well,
                               hardware, cmds>>

(* dest_well = transfer["dest_well"]; source_well = transfer["source_well"] *)
BoundWells(i) ==
    [source_well |-> TRANSFERS[i].source_well, dest_well |-> TRANSFERS[i].dest_well]

(* pipette.pick_up_tip(next_tip), then the two assignments *)
PickUpTip ==
    /\ At("pick_up_tip")
    /\ LET target == PickUpTarget(next_tip)
       IN  IF target = "None"
           THEN Raise("OutOfTipsError")
           ELSE /\ has_tip' = [has_tip EXCEPT ![target] = FALSE]
                /\ attached' = target
                /\ Issue(Cmd("pick_up_tip", Top("tiprack", target, 0),
                             0, 0, 0, Zero, tips_to_consume))
                /\ source_well' = BoundWells(transfer).source_well
                /\ dest_well' = BoundWells(transfer).dest_well
                /\ Goto(NextPc("pick_up_tip"))
                /\ UNCHANGED <<config, tips_to_consume, transfer, starting_tip,
                               next_tip, offset, current_volume>>

(* pipette.move_to(location) at statement p; plate[well] may raise KeyError *)
MoveTo(p, plate, well, mm) ==
    /\ At(p)
    /\ IF ~HasWell(well)
       THEN Raise("KeyError")
       ELSE /\ Issue(Cmd("move_to", Top(plate, well, mm), 0, 0, 0, Zero, 0))
            /\ Goto(NextPc(p))
            /\ UNCHANGED <<config, locals, hardware>>

(* pipette.move_to(source_plate[source_well].top(2)) *)
MoveToSource == MoveTo("move_to_source", "source", source_well, APPROACH_MM)


----------------------------------------------------------------------------
(* compass_mix_pattern *)

(* Mutant of CompassCall: the destination plate is passed *)
CompassCall_destination_plate ==
    [plate |-> "destination",
     well |-> source_well,
     num_mixes_at_each_point |-> MIX_PARAMS.num_mixes_at_each_point,
     mm_from_center |-> MIX_PARAMS.mm_from_center,
     volume |-> MIX_PARAMS.volume,
     mm_from_bottom |-> MIX_PARAMS.mm_from_bottom,
     mix_rate |-> MIX_PARAMS.mix_rate]

(* The arguments of the call at lines 172-180 *)
CompassCall ==
    [plate |-> "source",
     well |-> source_well,
     num_mixes_at_each_point |-> MIX_PARAMS.num_mixes_at_each_point,
     mm_from_center |-> MIX_PARAMS.mm_from_center,
     volume |-> MIX_PARAMS.volume,
     mm_from_bottom |-> MIX_PARAMS.mm_from_bottom,
     mix_rate |-> MIX_PARAMS.mix_rate]

(* Mutant of North: the shipped radius instead of the parameter *)
North_hardcoded(r) == <<0, MM_FROM_CENTER, 0>>

(* Mutants of the offsets *)
South_as_north(r) == <<0, r, 0>>
ResetValue_west(r) == <<0 - r, 0, 0>>

(* The offsets set_offset is given, for mm_from_center = r *)
North(r) == <<0, r, 0>>
South(r) == <<0, 0 - r, 0>>
East(r) == <<r, 0, 0>>
West(r) == <<0 - r, 0, 0>>
ResetValue(r) == <<0, 0, 0>>

(* pipette.mix(num_mixes_at_each_point, volume,                           *)
(*             plate[well].bottom(mm_from_bottom), rate=mix_rate)         *)
Mix(p) ==
    /\ At(p)
    /\ LET a == CompassCall
       IN  IF ~HasWell(a.well)
           THEN Raise("KeyError")
           ELSE /\ Issue(Cmd("mix", Bottom(a.plate, a.well, a.mm_from_bottom),
                             a.volume, a.num_mixes_at_each_point, a.mix_rate,
                             Zero, 0))
                /\ Goto(NextPc(p))
                /\ UNCHANGED <<config, locals, hardware>>

(* plate.set_offset(x, y, z) *)
SetOffset(p, xyz) ==
    /\ At(p)
    /\ LET a == CompassCall
       IN  /\ offset' = [offset EXCEPT ![a.plate] = xyz]
           /\ Issue(Cmd("set_offset",
                        [plate |-> a.plate, well |-> "-", pos |-> "-", mm |-> 0,
                         off |-> offset[a.plate]],
                        0, 0, 0, xyz, 0))
    /\ Goto(NextPc(p))
    /\ UNCHANGED <<config, locals, has_tip, attached, current_volume>>

MixCenter == Mix("mix_center")
SetNorth == SetOffset("set_north", North(CompassCall.mm_from_center))
MixNorth == Mix("mix_north")
SetSouth == SetOffset("set_south", South(CompassCall.mm_from_center))
MixSouth == Mix("mix_south")
SetEast == SetOffset("set_east", East(CompassCall.mm_from_center))
MixEast == Mix("mix_east")
SetWest == SetOffset("set_west", West(CompassCall.mm_from_center))
MixWest == Mix("mix_west")
ResetOffset == SetOffset("reset_offset", ResetValue(CompassCall.mm_from_center))

----------------------------------------------------------------------------
(* The rest of the loop body *)

(* Mutant of the dispensed volume *)
DispenseVolume_mix(i) == MIX_PARAMS.volume

(* Mutant of the aspirated volume *)
AspirateVolume_mix(i) == MIX_PARAMS.volume

(* transfer["volume_ul"] at lines 181 and 184 *)
AspirateVolume(i) == TRANSFERS[i].volume_ul
DispenseVolume(i) == TRANSFERS[i].volume_ul

(* pipette.aspirate(transfer["volume_ul"], source_plate[source_well].bottom()) *)
Aspirate ==
    /\ At("aspirate")
    /\ IF ~HasWell(source_well)
       THEN Raise("KeyError")
       ELSE /\ Issue(Cmd("aspirate", Bottom("source", source_well, 0),
                         AspirateVolume(transfer), 0, 0, Zero, 0))
            /\ current_volume' = current_volume + AspirateVolume(transfer)
            /\ Goto(NextPc("aspirate"))
            /\ UNCHANGED <<config, locals, offset, has_tip, attached>>

(* pipette.move_to(source_plate[dest_well].top(2)) *)
MoveAboveSource == MoveTo("move_above_source", "source", dest_well, APPROACH_MM)

(* pipette.move_to(destination_plate[dest_well].top(40)) *)
MoveAboveDest == MoveTo("move_above_dest", "destination", dest_well, TRAVEL_MM)

(* pipette.dispense(transfer["volume_ul"], destination_plate[dest_well].bottom()) *)
Dispense ==
    /\ At("dispense")
    /\ IF ~HasWell(dest_well)
       THEN Raise("KeyError")
       ELSE /\ Issue(Cmd("dispense", Bottom("destination", dest_well, 0),
                         DispenseVolume(transfer), 0, 0, Zero, 0))
            /\ current_volume' = current_volume - DispenseVolume(transfer)
            /\ Goto(NextPc("dispense"))
            /\ UNCHANGED <<config, locals, offset, has_tip, attached>>

(* pipette.move_to(destination_plate[dest_well].top(40)) *)
Retreat == MoveTo("retreat", "destination", dest_well, TRAVEL_MM)

(* pipette.drop_tip(): the tip goes to the trash, not back to the rack *)
DropTip ==
    /\ At("drop_tip")
    /\ Issue(Cmd("drop_tip", NoLocation, 0, 0, 0, Zero, 0))
    /\ attached' = "-"
    /\ Goto(NextPc("drop_tip"))
    /\ UNCHANGED <<config, locals, offset, has_tip, current_volume>>

(* protocol.home() *)
Home ==
    /\ At("home")
    /\ Issue(Cmd("home", NoLocation, 0, 0, 0, Zero, 0))
    /\ pc' = "end"
    /\ status' = "completed"
    /\ UNCHANGED <<config, locals, hardware>>

(* Mutant of Fault: the offset is reset on the way out (try/finally) *)
Fault_with_reset ==
    /\ status = "running"
    /\ pc \in HardwarePcs
    /\ status' = "HardwareFault"
    /\ offset' = [offset EXCEPT !["source"] = Zero]
    /\ UNCHANGED <<config, locals, pc, has_tip, attached, current_volume, cmds>>

(* A hardware command raises: the exception leaves run() (no try/except) *)
Fault ==
    /\ status = "running"
    /\ pc \in HardwarePcs
    /\ Raise("HardwareFault")

Next ==
    \/ ForTransfer
    \/ NextTip
    \/ PickUpTip
    \/ MoveToSource
    \/ MixCenter
    \/ SetNorth
    \/ MixNorth
    \/ SetSouth
    \/ MixSouth
    \/ SetEast
    \/ MixEast
    \/ SetWest
    \/ MixWest
    \/ ResetOffset
    \/ Aspirate
    \/ MoveAboveSource
    \/ MoveAboveDest
    \/ Dispense
    \/ Retreat
    \/ DropTip
    \/ Home
    \/ Fault

Spec == Init /\ [][Next]_vars


(* run() with hardware commands that all return: every statement but    *)
(* Fault.  run() is one sequential thread and every call blocks until it *)
(* returns, so a statement that can execute does execute.                *)
ReturningNext ==
    \/ ForTransfer
    \/ NextTip
    \/ PickUpTip
    \/ MoveToSource
    \/ MixCenter
    \/ SetNorth
    \/ MixNorth
    \/ SetSouth
    \/ MixSouth
    \/ SetEast
    \/ MixEast
    \/ SetWest
    \/ MixWest
    \/ ResetOffset
    \/ Aspirate
    \/ MoveAboveSource
    \/ MoveAboveDest
    \/ Dispense
    \/ Retreat
    \/ DropTip
    \/ Home

FairSpec == Init /\ [][ReturningNext]_vars /\ WF_vars(ReturningNext)

----------------------------------------------------------------------------
(* Properties *)

(* The commands of one transfer on a run without abort, as (op, plate) *)
StepOps ==
    << "pick_up_tip", "move_to",
       "mix", "set_offset", "mix", "set_offset", "mix", "set_offset", "mix",
       "set_offset", "mix", "set_offset",
       "aspirate", "move_to", "move_to", "dispense", "move_to", "drop_tip" >>

StepPlates ==
    << "tiprack", "source",
       "source", "source", "source", "source", "source", "source", "source",
       "source", "source", "source",
       "source", "source", "destination", "destination", "destination", "-" >>

StepHeights ==
    << <<"top", 0>>, <<"top", APPROACH_MM>>,
       <<"bottom", MM_FROM_BOTTOM>>, <<"-", 0>>, <<"bottom", MM_FROM_BOTTOM>>,
       <<"-", 0>>, <<"bottom", MM_FROM_BOTTOM>>, <<"-", 0>>,
       <<"bottom", MM_FROM_BOTTOM>>, <<"-", 0>>, <<"bottom", MM_FROM_BOTTOM>>,
       <<"-", 0>>,
       <<"bottom", 0>>, <<"top", APPROACH_MM>>, <<"top", TRAVEL_MM>>,
       <<"bottom", 0>>, <<"top", TRAVEL_MM>>, <<"-", 0>> >>

PerTransfer == Len(StepOps)
AspirateStep == CHOOSE j \in 1..Len(StepOps) : StepOps[j] = "aspirate"

NTransfers == Len(TRANSFERS)
NTips == Len(TIPRACK_TIPS)

Indices(op) == { k \in 1..Len(cmds) : cmds[k].op = op }
IndicesOf(op, i) == { k \in 1..Len(cmds) : cmds[k].op = op /\ cmds[k].t = i }

IsPickUp(c) == c.op = "pick_up_tip"
PickUps == SelectSeq(cmds, IsPickUp)

(* C1: with at least as many tips as transfers, the k-th pick-up belongs  *)
(* to the k-th transfer and uses the k-th entry of the tip list; no entry *)
(* beyond the N-th is taken from the iterator; a completed run has made   *)
(* exactly N pick-ups.                                                    *)
C1_TipsConsumedInOrder ==
    NTips >= NTransfers =>
        /\ \A k \in 1..Len(PickUps) :
              /\ PickUps[k].t = k
              /\ PickUps[k].entry = k
              /\ PickUps[k].start = TIPRACK_TIPS[k]
        /\ tips_to_consume <= NTransfers
        /\ tips_to_consume = transfer \/ (pc = "next_tip" /\ tips_to_consume = transfer - 1)
        /\ status = "completed" =>
              /\ Len(PickUps) = NTransfers
              /\ tips_to_consume = NTransfers

C1_Witness ==
    /\ status = "completed"
    /\ NTransfers = 2
    /\ NTips >= 2
    /\ Len(PickUps) = 2
    /\ PickUps[2].start = TIPRACK_TIPS[2]

(* C2: the trace is a prefix of: for each transfer in list order, the     *)
(* eighteen commands of StepOps in that order (pick_up_tip, move_to the   *)
(* approach height on the source plate, the compass mix, aspirate,        *)
(* move_to above the source plate, move_to above the destination plate,   *)
(* dispense, move_to above the destination plate, drop_tip), each on the  *)
(* plate and at the height of its step, then home.                        *)
C2_TransfersInOrderNoInterleaving ==
    /\ Len(cmds) <= PerTransfer * NTransfers + 1
    /\ \A k \in 1..Len(cmds) :
          IF k = PerTransfer * NTransfers + 1
          THEN cmds[k].op = "home"
          ELSE /\ cmds[k].t = ((k - 1) \div PerTransfer) + 1
               /\ cmds[k].op = StepOps[((k - 1) % PerTransfer) + 1]
               /\ cmds[k].loc.plate = StepPlates[((k - 1) % PerTransfer) + 1]
               /\ <<cmds[k].loc.pos, cmds[k].loc.mm>>
                     = StepHeights[((k - 1) % PerTransfer) + 1]

C2_Witness ==
    /\ status = "completed"
    /\ NTransfers = 2
    /\ Len(cmds) = 2 * PerTransfer + 1
    /\ cmds[PerTransfer].op = "drop_tip" /\ cmds[PerTransfer].t = 1
    /\ cmds[PerTransfer + 1].op = "pick_up_tip" /\ cmds[PerTransfer + 1].t = 2

CompassOffsets(r) ==
    << <<0, 0, 0>>, <<0, r, 0>>, <<0, 0 - r, 0>>, <<r, 0, 0>>, <<0 - r, 0, 0>> >>

MixesOf(i) == SelectSeq(cmds, LAMBDA c : c.op = "mix" /\ c.t = i)
SetOffsetsOf(i) == SelectSeq(cmds, LAMBDA c : c.op = "set_offset" /\ c.t = i)

(* C3: in every transfer, the k-th mix is made with the source plate's    *)
(* offset at the k-th of (0,0,0), (0,r,0), (0,-r,0), (r,0,0), (-r,0,0),   *)
(* with the repetitions, volume, depth and rate of MIX_PARAMS, and the    *)
(* set_offset after the fifth mix sets (0,0,0).                           *)
C3_CompassOrderEveryMix ==
    \A i \in 1..transfer :
        LET M == MixesOf(i)
            S == SetOffsetsOf(i)
            E == CompassOffsets(MIX_PARAMS.mm_from_center)
        IN  /\ Len(M) <= 5
            /\ \A k \in 1..Len(M) :
                  /\ M[k].frame = E[k]
                  /\ M[k].loc.off = E[k]
                  /\ M[k].loc.plate = "source"
                  /\ M[k].loc.pos = "bottom"
                  /\ M[k].loc.mm = MIX_PARAMS.mm_from_bottom
                  /\ M[k].reps = MIX_PARAMS.num_mixes_at_each_point
                  /\ M[k].vol = MIX_PARAMS.volume
                  /\ M[k].rate = MIX_PARAMS.mix_rate
            /\ Len(S) <= 5
            /\ Len(S) = 5 =>
                  /\ Len(M) = 5
                  /\ S[5].arg = Zero
                  /\ S[5].loc.plate = "source"
                  /\ (cmds[Len(cmds)].op = "set_offset" /\ cmds[Len(cmds)].t = i)
                        => offset["source"] = Zero

C3_Witness ==
    /\ transfer = 2
    /\ MIX_PARAMS.mm_from_center > 0
    /\ Len(MixesOf(2)) = 5
    /\ Len(SetOffsetsOf(2)) = 5
    /\ pc = "aspirate"

InsideMix ==
    { "mix_north", "set_south", "mix_south", "set_east", "mix_east",
      "set_west", "mix_west", "reset_offset" }

UnOffsetOps == { "aspirate", "dispense", "move_to", "pick_up_tip", "drop_tip", "home" }

(* C4: the source plate's offset is (0,0,0) when any aspirate, dispense,  *)
(* move_to, pick_up_tip, drop_tip or home is issued and when a run ends   *)
(* without hardware fault; it is non-zero only between the first          *)
(* set_offset of a compass mix and the reset of that mix.                 *)
C4_OffsetNeverLeaks ==
    /\ \A k \in 1..Len(cmds) :
          cmds[k].op \in UnOffsetOps => cmds[k].frame = Zero /\ cmds[k].loc.off = Zero
    /\ offset["source"] # Zero => pc \in InsideMix
    /\ status \notin {"running", "HardwareFault"} => offset["source"] = Zero

C4_Witness ==
    /\ status = "completed"
    /\ NTransfers = 2
    /\ MIX_PARAMS.mm_from_center > 0
    /\ \E k \in 1..Len(cmds) : cmds[k].op = "mix" /\ cmds[k].t = 1 /\ cmds[k].frame # Zero
    /\ \E k \in 1..Len(cmds) : cmds[k].op = "aspirate" /\ cmds[k].t = 2

(* C5: with K tips for N > K transfers, no command is ever issued for a   *)
(* transfer after the K-th, the run does not complete, no rack position   *)
(* is picked up twice, and when the run stops on the exhausted iterator   *)
(* it is at the tip acquisition of transfer K+1 with all commands of the  *)
(* first K transfers issued.                                              *)
C5_AbortOnTipExhaustion ==
    NTips < NTransfers =>
        /\ \A k \in 1..Len(cmds) : cmds[k].t <= NTips
        /\ status # "completed"
        /\ \A j, k \in 1..Len(PickUps) : j # k => PickUps[j].loc.well # PickUps[k].loc.well
        /\ status = "StopIteration" =>
              /\ transfer = NTips + 1
              /\ pc = "next_tip"
              /\ Len(cmds) = PerTransfer * NTips
              /\ \A i \in 1..NTips :
                    /\ cmds[PerTransfer * (i - 1) + 1].op = "pick_up_tip"
                    /\ cmds[PerTransfer * (i - 1) + 1].t = i
                    /\ cmds[PerTransfer * i].op = "drop_tip"
                    /\ cmds[PerTransfer * i].t = i

C5_Witness ==
    /\ status = "StopIteration"
    /\ NTips = 1
    /\ NTransfers = 2
    /\ Len(cmds) = PerTransfer
    /\ cmds[PerTransfer].op = "drop_tip"


InvalidPlan ==
    \/ NTips < NTransfers
    \/ \E i \in 1..NTransfers :
          ~HasWell(TRANSFERS[i].source_well) \/ ~HasWell(TRANSFERS[i].dest_well)

(* C6 as stated: a plan with too few tips or an unresolvable well ends    *)
(* with no hardware command issued.                                       *)
C6_ValidationBeforeMotion ==
    (InvalidPlan /\ status \in {"StopIteration", "KeyError"}) => cmds = <<>>

(* C6 as amended: nothing is validated before motion.  The run stops only *)
(* when the loop reaches the offending transfer: on the exhausted tip     *)
(* iterator after all commands of the first K transfers, on an            *)
(* unresolvable source well right after that transfer's pick_up_tip, on   *)
(* an unresolvable destination well right after that transfer's aspirate, *)
(* each time with all commands of the earlier transfers issued.           *)
C6_AbortAtOffendingTransfer ==
    /\ status = "StopIteration" =>
          /\ NTips < NTransfers
          /\ transfer = NTips + 1
          /\ Len(cmds) = PerTransfer * NTips
    /\ status = "KeyError" =>
          /\ transfer \in 1..NTransfers
          /\ \A i \in 1..(transfer - 1) :
                HasWell(TRANSFERS[i].source_well) /\ HasWell(TRANSFERS[i].dest_well)
          /\ IF ~HasWell(TRANSFERS[transfer].source_well)
             THEN /\ Len(cmds) = PerTransfer * (transfer - 1) + 1
                  /\ cmds[Len(cmds)].op = "pick_up_tip"
                  /\ cmds[Len(cmds)].t = transfer
             ELSE /\ ~HasWell(TRANSFERS[transfer].dest_well)
                  /\ Len(cmds) = PerTransfer * (transfer - 1) + AspirateStep
                  /\ cmds[Len(cmds)].op = "aspirate"
                  /\ cmds[Len(cmds)].t = transfer

C6_Witness ==
    /\ status = "KeyError"
    /\ transfer = 2
    /\ ~HasWell(TRANSFERS[2].source_well)
    /\ Len(cmds) = PerTransfer + 1
    /\ cmds[Len(cmds)].op = "pick_up_tip"

(* C7 as stated: the command after every aspirate is a move_to above the  *)
(* transfer's source well on the source plate.                            *)
C7_TravelAboveSourceWell ==
    \A k \in 2..Len(cmds) :
        cmds[k - 1].op = "aspirate" =>
            /\ cmds[k].op = "move_to"
            /\ cmds[k].loc.plate = "source"
            /\ cmds[k].loc.pos = "top"
            /\ cmds[k].loc.well = TRANSFERS[cmds[k].t].source_well

(* C8 as stated: every well targeted on the source plate is the           *)
(* transfer's source_well and every well targeted on the destination      *)
(* plate is the transfer's dest_well.                                     *)
C8_WellsResolvedOnOwnPlate ==
    \A k \in 1..Len(cmds) :
        /\ (cmds[k].loc.plate = "source" /\ cmds[k].op # "set_offset")
              => cmds[k].loc.well = TRANSFERS[cmds[k].t].source_well
        /\ cmds[k].loc.plate = "destination"
              => cmds[k].loc.well = TRANSFERS[cmds[k].t].dest_well

(* C9: on a completed run every transfer has exactly one pick_up_tip,     *)
(* five mixes of num_mixes_at_each_point repetitions, all before its      *)
(* aspirate, one aspirate and one dispense of the transfer's volume_ul    *)
(* and one drop_tip.                                                      *)
C9_CommandCountsPerTransfer ==
    status = "completed" =>
        \A i \in 1..NTransfers :
            /\ Cardinality(IndicesOf("pick_up_tip", i)) = 1
            /\ Cardinality(IndicesOf("mix", i)) = 5
            /\ Cardinality(IndicesOf("aspirate", i)) = 1
            /\ Cardinality(IndicesOf("dispense", i)) = 1
            /\ Cardinality(IndicesOf("drop_tip", i)) = 1
            /\ \A m \in IndicesOf("mix", i) :
                  /\ cmds[m].reps = MIX_PARAMS.num_mixes_at_each_point
                  /\ \A a \in IndicesOf("aspirate", i) : m < a
            /\ \A a \in IndicesOf("aspirate", i) :
                  cmds[a].vol = TRANSFERS[i].volume_ul
            /\ \A d \in IndicesOf("dispense", i) :
                  cmds[d].vol = TRANSFERS[i].volume_ul

C9_Witness ==
    /\ status = "completed"
    /\ NTransfers = 2
    /\ TRANSFERS[1].volume_ul # MIX_PARAMS.volume
    /\ TRANSFERS[2].volume_ul # TRANSFERS[1].volume_ul
    /\ Cardinality(Indices("mix")) = 10

(* C10: home is issued at most once, only as the last command of a run    *)
(* that completed, right after the drop_tip of the last transfer; a       *)
(* completed run has issued it and an aborted run has not.                *)
C10_HomeOnceAtEnd ==
    /\ Cardinality(Indices("home")) <= 1
    /\ \A k \in Indices("home") :
          /\ k = Len(cmds)
          /\ k = PerTransfer * NTransfers + 1
          /\ status = "completed"
          /\ NTransfers > 0 =>
                cmds[k - 1].op = "drop_tip" /\ cmds[k - 1].t = NTransfers
    /\ status = "completed" => Indices("home") # {}
    /\ status \notin {"running", "completed"} => Indices("home") = {}

C10_Witness ==
    /\ status = "completed"
    /\ NTransfers = 2
    /\ cmds[Len(cmds)].op = "home"
    /\ cmds[Len(cmds) - 1].op = "drop_tip"
    /\ cmds[Len(cmds) - 1].t = 2

(* C11 as stated: the tip picked up for every transfer is the tip at the  *)
(* rack position its entry of the tip list names.                         *)
C11_PickedTipIsNamedTip ==
    \A k \in 1..Len(PickUps) :
        /\ PickUps[k].start = TIPRACK_TIPS[PickUps[k].entry]
        /\ PickUps[k].loc.well = PickUps[k].start

(* C12: between two pick-ups the tip of the first is dropped by the       *)
(* drop_tip of its own transfer, no rack position is picked up twice, and *)
(* a position that was picked up never has a tip again.                   *)
C12_TipsSingleUse ==
    /\ \A j, k \in Indices("pick_up_tip") :
          j < k =>
              /\ cmds[j].loc.well # cmds[k].loc.well
              /\ \E d \in Indices("drop_tip") :
                    /\ j < d /\ d < k
                    /\ cmds[d].t = cmds[j].t
                    /\ cmds[d].tip = cmds[j].loc.well
    /\ \A k \in Indices("pick_up_tip") : ~has_tip[cmds[k].loc.well]
    /\ \A d \in Indices("drop_tip") :
          \E j \in Indices("pick_up_tip") :
              j < d /\ cmds[j].t = cmds[d].t /\ cmds[j].loc.well = cmds[d].tip

C12_Witness ==
    /\ status = "completed"
    /\ TIPRACK_TIPS = <<"A1", "A1">>
    /\ Len(PickUps) = 2
    /\ Cardinality(Indices("drop_tip")) = 2
    /\ ~has_tip[PickUps[1].loc.well] /\ ~has_tip[PickUps[2].loc.well]

(* C13: with mm_from_center = 0 the source plate's offset is (0,0,0) in   *)
(* every state, every mix is made at the same point (bottom(mm_from_bottom)*)
(* of the transfer's source well, offset (0,0,0)), and a completed run    *)
(* has issued all eighteen commands of every transfer, five of them mixes. *)
C13_RadiusZeroDegenerate ==
    MIX_PARAMS.mm_from_center = 0 =>
        /\ offset["source"] = Zero
        /\ \A k \in Indices("mix") :
              cmds[k].loc = [plate |-> "source",
                             well |-> TRANSFERS[cmds[k].t].source_well,
                             pos |-> "bottom",
                             mm |-> MIX_PARAMS.mm_from_bottom,
                             off |-> Zero]
        /\ \A k \in Indices("set_offset") : cmds[k].arg = Zero
        /\ status = "completed" =>
              /\ Len(cmds) = PerTransfer * NTransfers + 1
              /\ \A i \in 1..NTransfers : Cardinality(IndicesOf("mix", i)) = 5

C13_Witness ==
    /\ MIX_PARAMS.mm_from_center = 0
    /\ status = "completed"
    /\ NTransfers = 2
    /\ Cardinality(Indices("mix")) = 10

AfterNonZeroOffset == { "mix_north", "mix_south", "mix_east", "mix_west" }

SetOffsetPcs == { "set_north", "set_south", "set_east", "set_west", "reset_offset" }

(* C14 as stated: when a command of the compass mix fails, the source     *)
(* plate's offset is (0,0,0) when the run ends.                           *)
C14_ResetRunsOnFailure ==
    (status = "HardwareFault" /\ pc \in InsideMix) => offset["source"] = Zero

(* C14 as amended: when a mix or set_offset of the compass mix fails, the *)
(* reset step is not executed: no command follows the failing one, and    *)
(* after a failed mix at north, south, east or west the source plate's    *)
(* offset is still the offset of that compass point when the run ends.    *)
C14_NoResetOnFailure ==
    (status = "HardwareFault" /\ pc \in InsideMix) =>
        /\ Len(SetOffsetsOf(transfer)) < 5
        /\ Len(cmds) = PerTransfer * (transfer - 1) + BodyIndex(pc) - 2
        /\ pc \in AfterNonZeroOffset =>
              /\ offset["source"] = cmds[Len(cmds)].arg
              /\ cmds[Len(cmds)].op = "set_offset"
              /\ offset["source"] =
                    CompassOffsets(MIX_PARAMS.mm_from_center)[Len(MixesOf(transfer)) + 1]

C14_Witness ==
    /\ status = "HardwareFault"
    /\ pc = "mix_south"
    /\ transfer = 2
    /\ offset["source"] = <<0, 0 - MM_FROM_CENTER, 0>>

(* C15: once a hardware command has raised, nothing happens any more: no  *)
(* command is issued (no retry, no later step, no later transfer, no      *)
(* home), no tip is taken from the iterator, and the run stays ended at   *)
(* the failing statement.                                                 *)
C15_FaultIsFatal ==
    /\ [](status = "HardwareFault" => (pc \in HardwarePcs /\ Indices("home") = {}))
    /\ [][status = "HardwareFault" =>
             /\ status' = "HardwareFault"
             /\ cmds' = cmds
             /\ tips_to_consume' = tips_to_consume
             /\ transfer' = transfer
             /\ pc' = pc
             /\ UNCHANGED hardware]_vars

C15_Witness ==
    /\ status = "HardwareFault"
    /\ pc = "aspirate"
    /\ transfer = 1
    /\ NTransfers = 2
    /\ NTips = 2
    /\ tips_to_consume = 1

TipOps == { "mix", "aspirate", "dispense" }

(* C16: pick_up_tip is issued only with no tip on the pipette, drop_tip,  *)
(* mix, aspirate and dispense only with the tip picked up in the same     *)
(* transfer on it, home only with none; the pipette holds a tip exactly   *)
(* from after a pick_up_tip to the drop_tip of the same transfer.         *)
C16_TipAttachedDiscipline ==
    /\ \A k \in 1..Len(cmds) :
          /\ cmds[k].op \in {"pick_up_tip", "home"} => cmds[k].tip = "-"
          /\ cmds[k].op \in TipOps \cup {"drop_tip"} =>
                /\ cmds[k].tip # "-"
                /\ \E j \in IndicesOf("pick_up_tip", cmds[k].t) :
                      j < k /\ cmds[j].loc.well = cmds[k].tip
    /\ attached # "-" <=>
          (pc \in { Body[k] : k \in 3..Len(Body) })
    /\ attached # "-" => PickUps[Len(PickUps)].loc.well = attached

C16_Witness ==
    /\ status = "completed"
    /\ NTransfers = 2
    /\ attached = "-"
    /\ cmds[Len(cmds)].op = "home"
    /\ \E k \in IndicesOf("dispense", 2) : cmds[k].tip # "-"

EmptyOps == { "pick_up_tip", "mix", "aspirate", "drop_tip", "home" }

(* C17: the pipette is empty when a pick_up_tip, a mix, an aspirate, a    *)
(* drop_tip or home is issued; a dispense is issued holding exactly the   *)
(* volume of the transfer's aspirate and dispenses exactly that; liquid   *)
(* is held only from after the aspirate to the dispense of one transfer.  *)
C17_NoLiquidCarriedOver ==
    /\ \A k \in 1..Len(cmds) :
          /\ cmds[k].op \in EmptyOps => cmds[k].held = 0
          /\ cmds[k].op = "dispense" =>
                /\ cmds[k].held = cmds[k].vol
                /\ \E a \in IndicesOf("aspirate", cmds[k].t) :
                      a < k /\ cmds[a].vol = cmds[k].vol
    /\ current_volume >= 0
    /\ current_volume # 0 =>
          pc \in {"move_above_source", "move_above_dest", "dispense"}

C17_Witness ==
    /\ status = "completed"
    /\ NTransfers = 2
    /\ current_volume = 0
    /\ TRANSFERS[1].volume_ul # TRANSFERS[2].volume_ul
    /\ \E k \in IndicesOf("dispense", 2) : cmds[k].held = TRANSFERS[2].volume_ul

CompassPcs ==
    { "mix_center", "set_north", "mix_north", "set_south", "mix_south",
      "set_east", "mix_east", "set_west", "mix_west", "reset_offset" }

(* C18: the offsets of the destination plate and of the tip rack are      *)
(* (0,0,0) in every state, and a step of the compass mix changes neither  *)
(* the tip list, the tip iterator, the tip tracker nor the attached tip.  *)
C18_CompassMixFrame ==
    /\ [](offset["destination"] = Zero /\ offset["tiprack"] = Zero)
    /\ [][(pc \in CompassPcs) =>
             /\ offset'["destination"] = offset["destination"]
             /\ offset'["tiprack"] = offset["tiprack"]
             /\ TIPRACK_TIPS' = TIPRACK_TIPS
             /\ tips_to_consume' = tips_to_consume
             /\ has_tip' = has_tip
             /\ attached' = attached]_vars

C18_Witness ==
    /\ pc = "aspirate"
    /\ transfer = 2
    /\ MIX_PARAMS.mm_from_center > 0
    /\ Len(SetOffsetsOf(2)) = 5
    /\ attached # "-"
    /\ offset = [p \in Plates |-> Zero]

AllWellsResolve ==
    \A i \in 1..NTransfers :
        HasWell(TRANSFERS[i].source_well) /\ HasWell(TRANSFERS[i].dest_well)

(* C19 as stated: a run whose hardware commands all return ends either    *)
(* completed (tips >= transfers) or on tip exhaustion (tips < transfers). *)
C19_EndsCompletedOrExhausted ==
    status # "running" =>
        status = IF NTips >= NTransfers THEN "completed" ELSE "StopIteration"

(* C19 as amended: a run whose hardware commands all return eventually    *)
(* ends: completed, with home issued, only if tips >= transfers; on tip   *)
(* exhaustion only if tips < transfers; or on the KeyError of a well      *)
(* label the plate does not have.  When every well label resolves it ends *)
(* completed if tips >= transfers and on tip exhaustion otherwise.  The   *)
(* loop variable only advances by one, and no transfer gets a second      *)
(* pick_up_tip.                                                           *)
C19_RunTerminates ==
    /\ <>(status \in {"completed", "StopIteration", "KeyError"})
    /\ [](status = "completed" =>
             (NTips >= NTransfers /\ cmds[Len(cmds)].op = "home"))
    /\ [](status = "StopIteration" => NTips < NTransfers)
    /\ [](status = "KeyError" => ~AllWellsResolve)
    /\ []((AllWellsResolve /\ status # "running") =>
             status = IF NTips >= NTransfers THEN "completed" ELSE "StopIteration")
    /\ [](\A i \in 1..NTransfers : Cardinality(IndicesOf("pick_up_tip", i)) <= 1)
    /\ [][transfer' = transfer \/ transfer' = transfer + 1]_vars

C19_Witness ==
    /\ status = "KeyError"
    /\ NTransfers = 2
    /\ NTips = 2
    /\ transfer = 2
    /\ Cardinality(IndicesOf("pick_up_tip", 1)) = 1

====
